---- MODULE Spec2Model ----
(***************************************************************************)
(* Model of the README generator (src/main.py): the directory walk         *)
(* (read_codebase), the prompt assembly (format_codebase_for_prompt), the  *)
(* backend dispatch (handle_generation and the four generate_with_*        *)
(* adapters), the output sanitizer (clean_ai_output) and the __main__      *)
(* pipeline that writes the artifact.                                      *)
(*                                                                         *)
(* A Python str is a sequence of characters (strings), so that             *)
(* startswith, splitext, splitlines, strip and lower are computed on the   *)
(* characters.  String constants of the prompt are kept as single atoms.   *)
(***************************************************************************)
EXTENDS Integers, Sequences, FiniteSets, TLC

VARIABLES
    kind,                     \* what args.directory denotes: "dir", "file", "missing"
    files,                    \* the directory tree below args.directory: a set of file entries
    output_file,              \* args.output_file
    gemini_api_key,           \* args.gemini_api_key
    openai_api_key,           \* args.openai_api_key
    groq_api_key,             \* args.groq_api_key
    pc,                       \* position of the single thread
    stack,                    \* os.walk: directories still to be yielded
    visited,                  \* directories os.walk has yielded
    code_contents,            \* read_codebase's dict, in insertion order
    code_data,                \* __main__: the returned FileSet
    formatted_prompt_content, \* __main__: the PromptDocument
    calls,                    \* backend adapters invoked, in order
    failure,                  \* what the invoked backend met (history)
    generated_readme,         \* __main__: the backend's result
    raw_readme,               \* __main__: the sanitized text
    written,                  \* files written: sequence of [path, data]
    stdout,                   \* messages printed to stdout
    stderr,                   \* messages printed to stderr
    exc,                      \* the exception that ended the run, or "none"
    write_met                 \* what the write step met (history)

vars == <<kind, files, output_file, gemini_api_key, openai_api_key, groq_api_key,
          pc, stack, visited, code_contents, code_data, formatted_prompt_content,
          calls, failure, generated_readme, raw_readme, written, stdout, stderr, exc,
          write_met>>

-----------------------------------------------------------------------------
(* Bounds of the model *)

\* files in a tree walked by read_codebase alone
MaxWalkFiles == 2
\* files in a tree run through the whole pipeline
MaxMainFiles == 1
\* pieces of text concatenated into an input of clean_ai_output
MaxPieces == 4
\* entries of a FileSet handed to format_codebase_for_prompt
MaxEntries == 2

-----------------------------------------------------------------------------
(* Strings *)

\* the back-quote character (a TLA+ string cannot hold it)
Tick == "<backquote>"

Fence == <<Tick, Tick, Tick>>

FenceMarkdown == Fence \o <<"m","a","r","k","d","o","w","n">>

RECURSIVE Concat(_)
\* "".join(seq)
Concat(seq) == IF seq = <<>> THEN <<>> ELSE Head(seq) \o Concat(Tail(seq))

\* str.startswith for a one-character prefix
StartsWith(s, c) == Len(s) >= 1 /\ s[1] = c

EndsWith(s, c) == Len(s) >= 1 /\ s[Len(s)] = c

Max(S) == CHOOSE m \in S : \A n \in S : n <= m

Min(S) == CHOOSE m \in S : \A n \in S : m <= n

\* str.rfind(c), 1-based; 0 when c does not occur
RFind(s, c) == Max({0} \cup {i \in 1..Len(s) : s[i] = c})

-----------------------------------------------------------------------------
(* Path Filter: the three static sets *)

IGNORE_DIRS ==
    { <<".","v","e","n","v">>, <<"v","e","n","v">>, <<"m","y","e","n","v">>,
      <<"_","_","p","y","c","a","c","h","e","_","_">>,
      <<"n","o","d","e","_","m","o","d","u","l","e","s">>,
      <<"b","u","i","l","d">>, <<"d","i","s","t">>, <<"t","a","r","g","e","t">>,
      <<".","c","o","d","e","c","r","a","f","t","e","r","s">>,
      <<".","n","e","x","t">> }

IGNORE_EXTENSIONS ==
    { <<".","o">>, <<".","d","l","l">>, <<".","e","x","e">>, <<".","y","m","l">> }

IGNORE_FILES ==
    { <<"C","a","r","g","o",".","l","o","c","k">>,
      <<"C","a","r","g","o",".","t","o","m","l">>,
      <<"p","a","c","k","a","g","e","-","l","o","c","k",".","j","s","o","n">>,
      <<"r","e","q","u","i","r","e","m","e","n","t","s",".","t","x","t">> }

\* os.path.splitext(filename)[1]: from the last dot to the end, unless every
\* character before that dot is a dot too (leading dots are no extension)
splitext(p) ==
    LET dotIndex == RFind(p, ".")
    IN  IF dotIndex > 0 /\ \E i \in 1..(dotIndex - 1) : p[i] # "."
        THEN SubSeq(p, dotIndex, Len(p))
        ELSE <<>>

\* the directory filter of line 57: TRUE when d stays in dirs
KeepDir(d) == d \notin IGNORE_DIRS /\ ~StartsWith(d, ".")

IsFileIgnoredNoHidden(filename) ==
    \/ filename \in IGNORE_FILES
    \/ splitext(filename) \in IGNORE_EXTENSIONS

\* the file filter of lines 66-70: TRUE when the loop continues past filename
IsFileIgnored(filename) ==
    \/ filename \in IGNORE_FILES \/ StartsWith(filename, ".")
    \/ splitext(filename) \in IGNORE_EXTENSIONS

-----------------------------------------------------------------------------
(* The file system below args.directory *)

\* A file entry: the directory holding it (a sequence of names below the
\* root), its name, its bytes, and whether open()/read() succeeds on it.
N_src   == <<"s","r","c">>
N_build == <<"b","u","i","l","d">>
N_git   == <<".","g","i","t">>

DirPaths ==
    { <<>>, <<N_src>>, <<N_build>>, <<N_git>>, <<N_src, N_build>>, <<N_build, N_src>> }

FileNames ==
    { <<"m",".","p","y">>, <<"a",".","o">>, <<".","o">>, <<"o">>,
      <<"C","a","r","g","o",".","l","o","c","k">> }

\* "BAD" stands for a byte sequence that is no valid UTF-8
FileModes ==
    { [bytes |-> <<"p">>, readable |-> TRUE],
      [bytes |-> <<"q", "BAD", "r">>, readable |-> TRUE],
      [bytes |-> <<"p">>, readable |-> FALSE] }

Entries(dirs, names) ==
    { [dir |-> d, name |-> n, bytes |-> m.bytes, readable |-> m.readable] :
        d \in dirs, n \in names, m \in FileModes }

SamePlace(e, f) == e.dir = f.dir /\ e.name = f.name

RECURSIVE Trees(_, _)
\* the trees of at most k files drawn from the entries E, one file per place
Trees(E, k) ==
    IF k = 0 THEN { {} }
    ELSE LET T == Trees(E, k - 1)
         IN  T \cup { t \cup {e} : <<t, e>> \in
                        { p \in T \X E : \A f \in p[1] : ~SamePlace(p[2], f) } }

WalkTrees == Trees(Entries(DirPaths, FileNames), MaxWalkFiles)

MainTrees ==
    Trees(Entries({ <<>>, <<N_src>>, <<N_build>> },
                  { <<"m",".","p","y">>, <<"a",".","o">> }), MaxMainFiles)

\* 'decode(..., errors="ignore")': invalid byte sequences are dropped
RECURSIVE Decode(_)
Decode(bytes) ==
    IF bytes = <<>> THEN <<>>
    ELSE (IF Head(bytes) = "BAD" THEN <<>> ELSE <<Head(bytes)>>) \o Decode(Tail(bytes))

\* the directories of the tree: every directory holding a file, and its ancestors
TreeDirs(fs) == UNION { { SubSeq(f.dir, 1, n) : n \in 0..Len(f.dir) } : f \in fs }

\* the listing os.walk gets for directory root: sub-directory names and files
ListDirs(fs, root) ==
    { d[Len(root) + 1] : d \in { x \in TreeDirs(fs) :
        Len(x) = Len(root) + 1 /\ SubSeq(x, 1, Len(root)) = root } }

ListFiles(fs, root) == { f \in fs : f.dir = root }

\* the orders in which a listing may yield the elements of S
Orders(S) ==
    { s \in [1..Cardinality(S) -> S] : \A i, j \in 1..Cardinality(S) : s[i] = s[j] => i = j }

-----------------------------------------------------------------------------
(* Tree Walker: read_codebase *)

RECURSIVE JoinNames(_)
\* the components of a relative directory joined by the separator
JoinNames(dir) ==
    IF dir = <<>> THEN <<>>
    ELSE IF Len(dir) = 1 THEN dir[1]
    ELSE dir[1] \o <<"/">> \o JoinNames(Tail(dir))

\* os.path.relpath(root, directory_path)
relpath(root) == IF root = <<>> THEN <<".">> ELSE JoinNames(root)

\* lines 59-62
relative_root(root) == IF relpath(root) = <<".">> THEN <<>> ELSE relpath(root)

\* os.path.join(a, b) for a relative b
join(a, b) ==
    IF a = <<>> \/ EndsWith(a, "/") THEN a \o b ELSE a \o <<"/">> \o b

relative_path(f) == join(relative_root(f.dir), f.name)

Keys(cc) == { cc[i].path : i \in 1..Len(cc) }

\* code_contents[path] = content on an insertion-ordered dict
DictSet(cc, path, content) ==
    IF path \in Keys(cc)
    THEN [i \in 1..Len(cc) |->
            IF cc[i].path = path THEN [path |-> path, content |-> content] ELSE cc[i]]
    ELSE Append(cc, [path |-> path, content |-> content])

Lookup(cc, path) == (CHOOSE i \in 1..Len(cc) : cc[i].path = path)

\* "Error: Directory not found" is printed when this holds (line 50)
DirectoryNotFoundNever(k) == FALSE

DirectoryNotFound(k) == k # "dir"

\* os.walk(directory_path): a top that cannot be listed yields nothing
\* (onerror is None)
WalkTop(k) == IF k = "dir" THEN << <<>> >> ELSE <<>>

RECURSIVE ReadFilesAbort(_, _, _)
ReadFilesAbort(order, cc, out) ==
    IF order = <<>> THEN [cc |-> cc, out |-> out]
    ELSE LET f == Head(order)
         IN  IF IsFileIgnored(f.name) THEN ReadFilesAbort(Tail(order), cc, out)
             ELSE IF f.readable
             THEN ReadFilesAbort(Tail(order),
                                 DictSet(cc, relative_path(f), Decode(f.bytes)), out)
             ELSE [cc |-> cc, out |-> Append(out, <<"Error reading", relative_path(f)>>)]

RECURSIVE ReadFiles(_, _, _)
\* the loop of lines 64-81 over the files of one directory, in listing order
ReadFiles(order, cc, out) ==
    IF order = <<>> THEN [cc |-> cc, out |-> out]
    ELSE LET f == Head(order)
         IN  IF IsFileIgnored(f.name) THEN ReadFiles(Tail(order), cc, out)
             ELSE IF f.readable
             THEN ReadFiles(Tail(order),
                            DictSet(cc, relative_path(f), Decode(f.bytes)), out)
             ELSE ReadFiles(Tail(order), cc,
                            Append(out, <<"Error reading", relative_path(f)>>))

DescendAll(root, dorder) == [i \in 1..Len(dorder) |-> Append(root, dorder[i])]

\* dirs[:] = [d for d in dirs if ...] (line 57): the directories os.walk
\* descends into, in listing order
Descend(root, dorder) ==
    LET keep == SelectSeq(dorder, KeepDir)
    IN  [i \in 1..Len(keep) |-> Append(root, keep[i])]

\* lines 48-53
ReadStart ==
    /\ pc = "start"
    /\ stderr' = IF DirectoryNotFound(kind)
                 THEN Append(stderr, "Error: Directory not found") ELSE stderr
    /\ code_contents' = <<>>
    /\ stack' = WalkTop(kind)
    /\ pc' = "walking"
    /\ UNCHANGED <<kind, files, output_file, gemini_api_key, openai_api_key, groq_api_key,
                   visited, code_data, formatted_prompt_content, calls, failure,
                   generated_readme, raw_readme, written, stdout, exc, write_met>>

\* one iteration of the loop of line 55: os.walk yields the next directory
WalkStep ==
    /\ pc = "walking"
    /\ stack # <<>>
    /\ LET root == Head(stack)
       IN  \E dorder \in Orders(ListDirs(files, root)),
              forder \in Orders(ListFiles(files, root)) :
             LET r == ReadFiles(forder, code_contents, stdout)
             IN  /\ visited' = visited \cup {root}
                 /\ stack' = Descend(root, dorder) \o Tail(stack)
                 /\ code_contents' = r.cc
                 /\ stdout' = r.out
    /\ UNCHANGED <<kind, files, output_file, gemini_api_key, openai_api_key, groq_api_key,
                   pc, code_data, formatted_prompt_content, calls, failure,
                   generated_readme, raw_readme, written, stderr, exc, write_met>>

\* lines 83-87, and the assignment of line 297
ReadEnd ==
    /\ pc = "walking"
    /\ stack = <<>>
    /\ stderr' = IF code_contents = <<>>
                 THEN Append(stderr, "Warning: No relevant files found") ELSE stderr
    /\ code_data' = code_contents
    /\ pc' = "read_done"
    /\ UNCHANGED <<kind, files, output_file, gemini_api_key, openai_api_key, groq_api_key,
                   stack, visited, code_contents, formatted_prompt_content, calls, failure,
                   generated_readme, raw_readme, written, stdout, exc, write_met>>

NoneVal == "<None>"

\* the write step has not been reached
NotWritten == [dir |-> "none", io |-> "none"]

\* the state at position p with everything after it still unset
InitWith(k, fs, p, cd, gen) ==
    /\ kind = k
    /\ files = fs
    /\ pc = p
    /\ stack = <<>>
    /\ visited = {}
    /\ code_contents = <<>>
    /\ code_data = cd
    /\ formatted_prompt_content = <<>>
    /\ calls = <<>>
    /\ failure = "none"
    /\ generated_readme = gen
    /\ raw_readme = <<>>
    /\ written = <<>>
    /\ stdout = <<>>
    /\ stderr = <<>>
    /\ exc = "none"
    /\ write_met = NotWritten

NoArgs ==
    /\ output_file = NoneVal
    /\ gemini_api_key = NoneVal
    /\ openai_api_key = NoneVal
    /\ groq_api_key = NoneVal

\* what args.directory may denote: a directory holding one of the trees, a
\* regular file, or nothing
Targets(trees) == { <<"dir", t>> : t \in trees } \cup { <<"file", {}>>, <<"missing", {}>> }

\* read_codebase alone, on every tree of WalkTrees
InitWalk ==
    /\ \E t \in Targets(WalkTrees) : InitWith(t[1], t[2], "start", <<>>, <<>>)
    /\ NoArgs

NextWalk == ReadStart \/ WalkStep \/ ReadEnd

SpecWalk == InitWalk /\ [][NextWalk]_vars

-----------------------------------------------------------------------------
(* Prompt Assembler: format_codebase_for_prompt *)

Sentinel == <<"No code content was read from the directory.">>

Header == <<"Project Files:\n\n">>

\* lines 98-99: what one iteration appends to prompt_string
Section(e) ==
    <<"--- File: ">> \o e.path \o <<" ---\n">> \o Fence \o <<"\n">> \o e.content
        \o <<"\n">> \o Fence \o <<"\n", "\n">>

RECURSIVE FormatLoop(_, _, _)
\* the loop of lines 97-99 from entry i on, prompt_string being acc
FormatLoop(cc, i, acc) ==
    IF i > Len(cc) THEN acc ELSE FormatLoop(cc, i + 1, acc \o Section(cc[i]))

FormatNoSentinel(cc) == FormatLoop(cc, 1, Header)

\* lines 89-101
format_codebase_for_prompt(cc) ==
    IF cc = <<>> THEN Sentinel ELSE FormatLoop(cc, 1, Header)

-----------------------------------------------------------------------------
(* Output Sanitizer: clean_ai_output *)

\* the line boundaries of str.splitlines and the white space of str.strip
\* that occur in the texts of the model
LineBreaks == { "\n", "\r", "\f" }

WhiteSpace == { " ", "\t", "\n", "\r", "\f" }

\* the end of the first line of a non-empty s, terminator included
FirstLineEnd(s) ==
    LET brk == { i \in 1..Len(s) : s[i] \in LineBreaks }
    IN  IF brk = {} THEN Len(s)
        ELSE LET i == Min(brk)
             IN  IF s[i] = "\r" /\ i < Len(s) /\ s[i + 1] = "\n" THEN i + 1 ELSE i

RECURSIVE splitlines(_)
\* str.splitlines(keepends=True)
splitlines(s) ==
    IF s = <<>> THEN <<>>
    ELSE <<SubSeq(s, 1, FirstLineEnd(s))>> \o splitlines(SubSeq(s, FirstLineEnd(s) + 1, Len(s)))

\* str.strip()
strip(s) ==
    LET keep == { i \in 1..Len(s) : s[i] \notin WhiteSpace }
    IN  IF keep = {} THEN <<>> ELSE SubSeq(s, Min(keep), Max(keep))

lowerChar(c) ==
    CASE c = "M" -> "m" [] c = "A" -> "a" [] c = "R" -> "r" [] c = "K" -> "k"
      [] c = "D" -> "d" [] c = "O" -> "o" [] c = "W" -> "w" [] c = "N" -> "n"
      [] c = "B" -> "b" [] OTHER -> c

\* str.lower()
lower(s) == [i \in 1..Len(s) |-> lowerChar(s[i])]

CleanIgnoringEnd(s) ==
    IF s = <<>> THEN <<>>
    ELSE LET lines == splitlines(s)
             starts_with_fence == \/ lower(strip(lines[1])) = FenceMarkdown
                                  \/ strip(lines[1]) = Fence
         IN  Concat(IF starts_with_fence /\ Len(lines) >= 2
                    THEN SubSeq(lines, 2, Len(lines) - 1) ELSE lines)

\* lines 159-195
clean_ai_output(ai_response_string) ==
    IF ai_response_string = <<>> THEN <<>>
    ELSE LET lines == splitlines(ai_response_string)
         IN  IF lines = <<>> THEN <<>>
             ELSE LET first_line_stripped == strip(lines[1])
                      last_line_stripped == strip(lines[Len(lines)])
                      starts_with_fence ==
                          \/ lower(first_line_stripped) = FenceMarkdown
                          \/ first_line_stripped = Fence
                      ends_with_fence ==
                          starts_with_fence /\ lower(last_line_stripped) = Fence
                      cleaned_lines ==
                          IF starts_with_fence /\ ends_with_fence /\ Len(lines) >= 2
                          THEN SubSeq(lines, 2, Len(lines) - 1)
                          ELSE lines
                  IN  Concat(cleaned_lines)

-----------------------------------------------------------------------------
(* Generation Dispatcher: handle_generation and the backend adapters *)

\* Python truth of an optional string argument
Truthy(v) == v # NoneVal /\ v # ""

Backends == { "gemini", "openai", "groq", "ollama" }

\* What the invoked backend meets:
\*   content        a completion with non-empty text
\*   empty_content  a completion whose text is the empty string
\*   absent         a well-formed response without completion text
\*   network        the connection fails
\*   timeout        the request times out
\*   http_status    the server answers with an error status
\*   decode         the response body cannot be decoded
\*   not_object     the decoded body is not an object (JSON null)
Outcomes == { "content", "empty_content", "absent", "network", "timeout",
              "http_status", "decode", "not_object" }

Responses ==
    { <<"B">>,
      FenceMarkdown \o <<"\n", "B", "\n">> \o Fence }

SelectBackendOpenAIFirst(g, o, q) ==
    IF Truthy(o) THEN "openai"
    ELSE IF Truthy(g) THEN "gemini"
    ELSE IF Truthy(q) THEN "groq"
    ELSE "ollama"

\* the chain of lines 254-263
SelectBackend(g, o, q) ==
    IF Truthy(g) THEN "gemini"
    ELSE IF Truthy(o) THEN "openai"
    ELSE IF Truthy(q) THEN "groq"
    ELSE "ollama"

Returned(value, out) == [raised |-> "none", value |-> value, out |-> out]

Raised(e) == [raised |-> e, value |-> <<>>, out |-> <<>>]

\* lines 119-157: the try block and its three handlers
generate_with_ollama(outcome, text) ==
    CASE outcome = "content" -> Returned(text, <<"ollama: content">>)
      [] outcome = "empty_content" -> Returned(<<>>, <<"ollama: content">>)
      [] outcome = "absent" -> Returned(<<>>, <<"Unexpected JSON structure in response.">>)
      [] outcome = "timeout" -> Returned(<<>>, <<"Timed out">>)
      [] outcome \in { "network", "http_status" } ->
            Returned(<<>>, <<"Error during Ollama request">>)
      [] outcome = "decode" -> Returned(<<>>, <<"Error: Failed to decode JSON response.">>)
      [] outcome = "not_object" -> Raised("TypeError")

SdkSwallows(outcome, text) ==
    CASE outcome = "content" -> Returned(text, <<>>)
      [] outcome \in { "empty_content", "absent" } -> Raised("ValueError")
      [] OTHER -> Returned(<<>>, <<"sdk error">>)

\* lines 197-212, 214-229, 231-247: the SDK call is in no try block, and the
\* completion text is tested with 'if not content'
generate_with_sdk(outcome, text) ==
    CASE outcome = "content" -> Returned(text, <<>>)
      [] outcome \in { "empty_content", "absent" } -> Raised("ValueError")
      [] OTHER -> Raised("SDKError")

generate_with_gemini(outcome, text) == generate_with_sdk(outcome, text)

generate_with_openai(outcome, text) == generate_with_sdk(outcome, text)

generate_with_groq(outcome, text) == generate_with_sdk(outcome, text)

Invoke(b, outcome, text) ==
    CASE b = "gemini" -> generate_with_gemini(outcome, text)
      [] b = "openai" -> generate_with_openai(outcome, text)
      [] b = "groq" -> generate_with_groq(outcome, text)
      [] b = "ollama" -> generate_with_ollama(outcome, text)

-----------------------------------------------------------------------------
(* The pipeline of __main__ *)

HasContentAlways(cd) == TRUE

\* 'if code_data:' (line 299)
HasContent(cd) == cd # <<>>

\* lines 299 and 334-335
MainBranch ==
    /\ pc = "read_done"
    /\ IF HasContent(code_data)
       THEN pc' = "format" /\ stdout' = stdout
       ELSE /\ pc' = "done"
            /\ stdout' = Append(stdout, <<"Could not read any relevant code content.">>)
    /\ UNCHANGED <<kind, files, output_file, gemini_api_key, openai_api_key, groq_api_key,
                   stack, visited, code_contents, code_data, formatted_prompt_content,
                   calls, failure, generated_readme, raw_readme, written, stderr, exc, write_met>>

\* line 301
Format ==
    /\ pc = "format"
    /\ formatted_prompt_content' = format_codebase_for_prompt(code_data)
    /\ pc' = "generate"
    /\ UNCHANGED <<kind, files, output_file, gemini_api_key, openai_api_key, groq_api_key,
                   stack, visited, code_contents, code_data, calls, failure,
                   generated_readme, raw_readme, written, stdout, stderr, exc, write_met>>

\* lines 304-307: handle_generation and the adapter it calls; an exception of
\* the adapter is caught nowhere and ends the run
HandleGeneration ==
    /\ pc = "generate"
    /\ \E outcome \in Outcomes, text \in Responses :
         LET b == SelectBackend(gemini_api_key, openai_api_key, groq_api_key)
             r == Invoke(b, outcome, text)
         IN  /\ calls' = Append(calls, b)
             /\ failure' = outcome
             /\ stdout' = stdout \o (IF b = "ollama" THEN << <<"prompt">> >> ELSE <<>>)
                                 \o [i \in 1..Len(r.out) |-> <<r.out[i]>>]
             /\ IF r.raised = "none"
                THEN /\ generated_readme' = r.value
                     /\ exc' = exc
                     /\ pc' = "clean"
                ELSE /\ generated_readme' = generated_readme
                     /\ exc' = r.raised
                     /\ pc' = "crashed"
    /\ UNCHANGED <<kind, files, output_file, gemini_api_key, openai_api_key, groq_api_key,
                   stack, visited, code_contents, code_data, formatted_prompt_content,
                   raw_readme, written, stderr, write_met>>

\* line 310
Clean ==
    /\ pc = "clean"
    /\ raw_readme' = clean_ai_output(generated_readme)
    /\ pc' = "write"
    /\ UNCHANGED <<kind, files, output_file, gemini_api_key, openai_api_key, groq_api_key,
                   stack, visited, code_contents, code_data, formatted_prompt_content,
                   calls, failure, generated_readme, written, stdout, stderr, exc, write_met>>

DefaultPath == "/tmp/generated_readme/<uuid4>.md"

\* what opening and writing the destination may meet
IoOutcomes == { "ok", "open_error", "write_error" }

\* the state of /tmp/generated_readme and of os.makedirs on it
DirOutcomes == { "exists", "created", "makedirs_error" }

StoredUnlessEmpty(path, data, io) ==
    IF io = "ok" /\ data # <<>>
    THEN << [path |-> path, data |-> data, complete |-> TRUE] >>
    ELSE <<>>

\* what 'with open(path, "w") as f: f.write(data)' leaves on disk
Stored(path, data, io) ==
    CASE io = "ok" -> << [path |-> path, data |-> data, complete |-> TRUE] >>
      [] io = "write_error" -> << [path |-> path, data |-> <<>>, complete |-> FALSE] >>
      [] io = "open_error" -> <<>>

\* lines 312-320: the write to args.output_file, inside try/except IOError
WriteGiven(io) ==
    /\ written' = written \o Stored(output_file, raw_readme, io)
    /\ stdout' = stdout \o << <<"output_file">> >>
                        \o (IF io = "ok" THEN << <<"Generated README.md saved to">> >> ELSE <<>>)
    /\ stderr' = IF io = "ok" THEN stderr
                 ELSE Append(stderr, "Error writing to output file")
    /\ exc' = exc
    /\ pc' = "done"

\* lines 321-333: the write below /tmp/generated_readme, in no try block
WriteDefault(dir, io) ==
    IF dir = "makedirs_error"
    THEN /\ exc' = "OSError"
         /\ pc' = "crashed"
         /\ UNCHANGED <<written, stdout, stderr>>
    ELSE /\ written' = written \o Stored(DefaultPath, raw_readme, io)
         /\ stdout' = stdout
                \o (IF dir = "created" THEN << <<"Directory created">> >> ELSE <<>>)
                \o (IF io = "ok" THEN << <<"Generated README.md saved to">> >> ELSE <<>>)
         /\ stderr' = stderr
         /\ exc' = IF io = "ok" THEN exc ELSE "OSError"
         /\ pc' = IF io = "ok" THEN "done" ELSE "crashed"

\* lines 312-333
Write ==
    /\ pc = "write"
    /\ \/ /\ Truthy(output_file)
          /\ \E io \in IoOutcomes :
                WriteGiven(io) /\ write_met' = [dir |-> "unused", io |-> io]
       \/ /\ ~Truthy(output_file)
          /\ \E dir \in DirOutcomes, io \in IoOutcomes :
                /\ WriteDefault(dir, io)
                /\ write_met' = [dir |-> dir, io |-> IF dir = "makedirs_error" THEN "unused" ELSE io]
    /\ UNCHANGED <<kind, files, output_file, gemini_api_key, openai_api_key, groq_api_key,
                   stack, visited, code_contents, code_data, formatted_prompt_content,
                   calls, failure, generated_readme, raw_readme>>

ArgValues == { NoneVal, "", "key" }

PathValues == { NoneVal, "", "out/README.md" }

\* the state after argument parsing
Init ==
    /\ \E t \in Targets(MainTrees) : InitWith(t[1], t[2], "start", <<>>, <<>>)
    /\ output_file \in PathValues
    /\ gemini_api_key \in ArgValues
    /\ openai_api_key \in ArgValues
    /\ groq_api_key \in ArgValues

Next ==
    \/ ReadStart \/ WalkStep \/ ReadEnd
    \/ MainBranch \/ Format \/ HandleGeneration \/ Clean \/ Write

Spec == Init /\ [][Next]_vars

-----------------------------------------------------------------------------
(* Properties of read_codebase *)

RECURSIVE Split(_)
\* the components of a relative path
Split(s) ==
    LET idx == { i \in 1..Len(s) : s[i] = "/" }
    IN  IF idx = {} THEN <<s>>
        ELSE <<SubSeq(s, 1, Min(idx) - 1)>> \o Split(SubSeq(s, Min(idx) + 1, Len(s)))

\* a directory name the specification calls ignored
DirNameIgnored(name) == name \in IGNORE_DIRS \/ (name # <<>> /\ Head(name) = ".")

\* the extension as the specification defines it: last "." to the end
LastDotExtension(name) ==
    IF \E i \in 1..Len(name) : name[i] = "."
    THEN SubSeq(name, Max({ i \in 1..Len(name) : name[i] = "." }), Len(name))
    ELSE <<>>

\* a file name at least one of the three rules matches
FileRuleMatches(name) ==
    \/ name \in IGNORE_FILES
    \/ (name # <<>> /\ Head(name) = ".")
    \/ LastDotExtension(name) \in IGNORE_EXTENSIONS

UnderIgnoredDir(f) == \E j \in 1..Len(f.dir) : DirNameIgnored(f.dir[j])

Present(f, cc) ==
    /\ relative_path(f) \in Keys(cc)
    /\ cc[Lookup(cc, relative_path(f))].content = Decode(f.bytes)

\* C1: no key of the FileSet lies under a sub-directory, at any depth, whose
\* name is in IGNORE_DIRS or starts with "."; such a directory is never
\* visited by the walk and the files below it contribute no entry.
C1_IgnoredDirsContributeNothing ==
    /\ \A i \in 1..Len(code_contents) :
         LET comps == Split(code_contents[i].path)
         IN  \A j \in 1..(Len(comps) - 1) : ~DirNameIgnored(comps[j])
    /\ \A d \in visited : \A j \in 1..Len(d) : ~DirNameIgnored(d[j])
    /\ \A f \in files : UnderIgnoredDir(f) => relative_path(f) \notin Keys(code_contents)
    /\ pc = "read_done" => Keys(code_data) = Keys(code_contents)

\* a finished walk of a tree with a readable, unfiltered file below an ignored
\* directory nested in a directory that was walked, and a file that was kept
C1_Witness ==
    /\ pc = "read_done"
    /\ code_data # <<>>
    /\ \E f \in files :
         /\ f.dir = <<N_src, N_build>>
         /\ f.readable /\ ~FileRuleMatches(f.name)
         /\ <<N_src>> \in visited

\* C2: a readable file met in a visited directory is absent from the FileSet
\* exactly when one of the three rules matches its name (exact name, leading
\* dot, extension from the last dot), and is otherwise present under its
\* root-relative path.
C2_FileExcludedIffRuleMatches ==
    \A f \in files :
        (f.dir \in visited /\ f.readable) =>
            /\ (relative_path(f) \notin Keys(code_contents)) <=> FileRuleMatches(f.name)
            /\ ~FileRuleMatches(f.name) =>
                 /\ Present(f, code_contents)
                 /\ Split(relative_path(f)) = Append(f.dir, f.name)

\* two siblings with identical content, one with an ignored extension: only
\* the other one is in the FileSet
C2_Witness ==
    /\ pc = "read_done"
    /\ \E f, g \in files :
         /\ f.dir = g.dir /\ f.bytes = g.bytes /\ f.readable /\ g.readable
         /\ f.name = <<"a",".","o">> /\ g.name = <<"m",".","p","y">>
         /\ relative_path(f) \notin Keys(code_data)
         /\ relative_path(g) \in Keys(code_data)

\* C9: a file that passed the filters and cannot be read is logged and left
\* out, nothing is raised, and every other eligible readable file of the
\* directories walked is in the FileSet with its content; when the walk has
\* ended that is every eligible readable file of the tree.
C9_UnreadableFileIsSkipped ==
    /\ exc = "none"
    /\ \A f \in files :
         (f.dir \in visited /\ ~FileRuleMatches(f.name)) =>
            IF f.readable THEN Present(f, code_contents)
            ELSE /\ relative_path(f) \notin Keys(code_contents)
                 /\ \E i \in 1..Len(stdout) : stdout[i] = <<"Error reading", relative_path(f)>>
    /\ pc = "read_done" =>
         \A f \in files :
            (~UnderIgnoredDir(f) /\ ~FileRuleMatches(f.name) /\ f.readable)
                => Present(f, code_data)

\* a finished walk that met an unreadable file and kept its readable sibling
C9_Witness ==
    /\ pc = "read_done"
    /\ \E f, g \in files :
         /\ f.dir = g.dir
         /\ ~f.readable /\ ~FileRuleMatches(f.name)
         /\ g.readable /\ Present(g, code_data)
         /\ \E i \in 1..Len(stdout) : stdout[i] = <<"Error reading", relative_path(f)>>

-----------------------------------------------------------------------------
(* clean_ai_output alone, on every text of CleanInputs *)

\* pieces of text: fence lines with and without terminator, with a tag, in
\* mixed case and padded, and ordinary text
Pieces ==
    { Fence,
      Fence \o <<"\n">>,
      FenceMarkdown \o <<"\n">>,
      <<" ">> \o Fence \o <<"M","a","r","k","D","o","w","n"," ","\r","\n">>,
      Fence \o <<"p","y","\n">>,
      <<"B">>,
      <<"\n">>,
      <<" ">> }

RECURSIVE Texts(_)
\* the concatenations of at most k pieces
Texts(k) ==
    IF k = 0 THEN { <<>> }
    ELSE LET T == Texts(k - 1) IN T \cup { t \o q : t \in T, q \in Pieces }

CleanInputs == Texts(MaxPieces)

InitClean ==
    /\ \E x \in CleanInputs : InitWith("dir", {}, "clean", <<>>, x)
    /\ NoArgs

NextClean == Clean

SpecClean == InitClean /\ [][NextClean]_vars

-----------------------------------------------------------------------------
(* format_codebase_for_prompt alone, on every FileSet of FileSets *)

FormatEntries ==
    { [path |-> q, content |-> c] :
        q \in { <<"m",".","p","y">>, <<"o">>,
                join(N_src, <<"m",".","p","y">>), join(N_src, <<"o">>) },
        c \in { <<>>, <<"p">>, Fence } }

RECURSIVE FileSets(_)
\* the FileSets of at most k entries: insertion-ordered, keys unique
FileSets(k) ==
    IF k = 0 THEN { <<>> }
    ELSE LET F == FileSets(k - 1)
         IN  F \cup { Append(p[1], p[2]) : p \in
                        { x \in F \X FormatEntries : x[2].path \notin Keys(x[1]) } }

InitFormat ==
    /\ \E cd \in FileSets(MaxEntries) : InitWith("dir", {}, "format", cd, <<>>)
    /\ NoArgs

NextFormat == Format

SpecFormat == InitFormat /\ [][NextFormat]_vars

-----------------------------------------------------------------------------
(* Properties of the pipeline *)

\* a credential that is configured: given and not empty
Configured(key) == key \notin { NoneVal, "" }

CloudBackends == { "gemini", "openai", "groq" }

\* the run was ended by an exception of the backend adapter
GenerationRaised == pc = "crashed" /\ exc \in { "ValueError", "SDKError", "TypeError" }

Printed(msg) == \E i \in 1..Len(stdout) : stdout[i] = <<msg>>

Reported(msg) == \E i \in 1..Len(stderr) : stderr[i] = msg

\* C3: when the walk yields an empty FileSet the run ends after the
\* no-content message: no backend is invoked and nothing is written,
\* whatever credentials and output path were given.
C3_EmptyFileSetEndsRun ==
    (pc \notin { "start", "walking" } /\ code_data = <<>>) =>
        /\ pc \in { "read_done", "done" }
        /\ calls = <<>>
        /\ written = <<>>
        /\ write_met.io = "none"
        /\ exc = "none"
        /\ pc = "done" =>
             /\ stdout # <<>>
             /\ stdout[Len(stdout)] = <<"Could not read any relevant code content.">>

\* a finished run on a directory whose only file is filtered out, with a
\* credential and an output path given
C3_Witness ==
    /\ pc = "done"
    /\ code_data = <<>>
    /\ files # {}
    /\ Configured(gemini_api_key)
    /\ Configured(output_file)

\* C4: handle_generation invokes exactly one backend, once: Gemini when its
\* key is configured, else OpenAI, else Groq, else the local Ollama backend;
\* nothing is invoked a second time, also after a failure.
C4_OneBackendByPrecedence ==
    /\ Len(calls) <= 1
    /\ pc \in { "start", "walking", "read_done", "format", "generate" } => calls = <<>>
    /\ (pc \in { "clean", "write" } \/ failure # "none") =>
         /\ Len(calls) = 1
         /\ Configured(gemini_api_key) => calls[1] = "gemini"
         /\ (~Configured(gemini_api_key) /\ Configured(openai_api_key)) => calls[1] = "openai"
         /\ (~Configured(gemini_api_key) /\ ~Configured(openai_api_key)
                /\ Configured(groq_api_key)) => calls[1] = "groq"
         /\ (~Configured(gemini_api_key) /\ ~Configured(openai_api_key)
                /\ ~Configured(groq_api_key)) => calls[1] = "ollama"

\* the OpenAI backend failed, with the Groq key configured too and an empty
\* Gemini key: it was the only call
C4_Witness ==
    /\ pc = "crashed"
    /\ failure = "network"
    /\ gemini_api_key = ""
    /\ Configured(openai_api_key) /\ Configured(groq_api_key)
    /\ calls = <<"openai">>

NetworkFailures == { "network", "timeout", "decode" }

\* C5 as stated: a network, timeout or decoding failure of whichever backend
\* was invoked gives the empty string and does not propagate, and exactly two
\* backends raise when the completion content is absent.
C5_FailuresSwallowedTwoRaise ==
    /\ failure \in NetworkFailures =>
         /\ ~GenerationRaised
         /\ generated_readme = <<>>
    /\ failure = "absent" =>
         Cardinality({ b \in Backends : Invoke(b, "absent", <<>>).raised # "none" }) = 2

\* C5 (amended): only the Ollama adapter swallows: its connection, timeout,
\* HTTP-status and JSON-decoding failures and a response object without
\* message content give the empty string with a diagnostic printed.  Each of
\* the three cloud adapters (Gemini, OpenAI, Groq) lets every failure of its
\* SDK call propagate and raises ValueError on an absent or empty completion;
\* in all these cases the run halts with nothing written.
C5_OnlyOllamaSwallows ==
    failure # "none" =>
        /\ (calls[1] = "ollama" /\ failure \in NetworkFailures \cup { "http_status", "absent" }) =>
             /\ ~GenerationRaised
             /\ generated_readme = <<>>
             /\ \/ Printed("Timed out") \/ Printed("Error during Ollama request")
                \/ Printed("Error: Failed to decode JSON response.")
                \/ Printed("Unexpected JSON structure in response.")
        /\ (calls[1] \in CloudBackends /\ failure # "content") =>
             /\ GenerationRaised
             /\ written = <<>>
             /\ write_met.io = "none"
        /\ (calls[1] \in CloudBackends /\ failure \in { "absent", "empty_content" }) =>
             exc = "ValueError"
        /\ Cardinality({ b \in Backends : Invoke(b, "absent", <<>>).raised # "none" }) = 3

\* the Groq backend, third of the raising ones, met an absent completion
C5_Witness ==
    /\ pc = "crashed"
    /\ calls = <<"groq">>
    /\ failure = "absent"
    /\ exc = "ValueError"

\* C7: a failure to open or write the destination is reported on stderr and
\* the run ends normally, with an output path given and with the default
\* path below the temporary-output directory.
C7_WriteFailureReported ==
    (write_met.io \in { "open_error", "write_error" }) =>
        /\ Reported("Error writing to output file")
        /\ pc = "done"
        /\ exc = "none"

\* C8: for a path that is no existing directory read_codebase reports the
\* condition, raises nothing and returns an empty FileSet, and the run ends
\* without any generation.
C8_BadDirectoryGivesEmptyFileSet ==
    kind # "dir" =>
        /\ pc # "start" => Reported("Error: Directory not found")
        /\ exc = "none"
        /\ visited = {}
        /\ code_contents = <<>>
        /\ code_data = <<>>
        /\ pc \in { "start", "walking", "read_done", "done" }
        /\ calls = <<>>
        /\ written = <<>>

\* a finished run on a missing directory with a credential given
C8_Witness ==
    /\ pc = "done"
    /\ kind = "missing"
    /\ Configured(openai_api_key)
    /\ Reported("Error: Directory not found")

-----------------------------------------------------------------------------
(* Properties of clean_ai_output *)

\* C6: with x split into lines, terminators kept: when x has at least two
\* lines, the stripped first line is a bare fence or, in any case of letters,
\* a fence tagged markdown, and the stripped last line is a bare fence, the
\* result is all lines but the first and the last, unchanged; otherwise the
\* result is x.  A fence pair directly inside the removed one stays.
C6_CleanStripsOneOuterFencePair ==
    pc = "write" =>
        LET x == generated_readme
            L == splitlines(x)
            n == Len(L)
            fenced == /\ n >= 2
                      /\ \/ strip(L[1]) = Fence
                         \/ lower(strip(L[1])) = FenceMarkdown
                      /\ strip(L[n]) = Fence
        IN  IF fenced
            THEN raw_readme = Concat([i \in 1..(n - 2) |-> L[i + 1]])
            ELSE raw_readme = x

\* two fence pairs, one directly inside the other: the inner pair is kept
C6_Witness ==
    /\ pc = "write"
    /\ generated_readme = Fence \o <<"\n">> \o Fence \o <<"\n">> \o Fence \o <<"\n">> \o Fence
    /\ raw_readme = Fence \o <<"\n">> \o Fence \o <<"\n">>

-----------------------------------------------------------------------------
(* Properties of format_codebase_for_prompt *)

MarkerLine(path) == <<"--- File: ">> \o path \o <<" ---\n">>

FencedBlock(content) == Fence \o <<"\n">> \o content \o <<"\n">> \o Fence \o <<"\n">>

BlankLine == <<"\n">>

\* C10: on an empty FileSet the result is the fixed, non-empty sentinel; on
\* a non-empty one it is the header followed by one section per entry in
\* insertion order, each the marker line, the content verbatim inside a
\* fence, and a blank line.
C10_FormatSentinelOrSections ==
    pc = "generate" =>
        IF code_data = <<>>
        THEN /\ formatted_prompt_content = Sentinel
             /\ formatted_prompt_content # <<>>
        ELSE formatted_prompt_content =
                Header \o Concat([i \in 1..Len(code_data) |->
                    MarkerLine(code_data[i].path)
                        \o FencedBlock(code_data[i].content) \o BlankLine])

\* two entries, the first with fence-like content, assembled in insertion order
C10_Witness ==
    /\ pc = "generate"
    /\ Len(code_data) = 2
    /\ code_data[1].path = join(N_src, <<"o">>) /\ code_data[1].content = Fence
    /\ code_data[2].path = <<"m",".","p","y">>
    /\ formatted_prompt_content # Sentinel

-----------------------------------------------------------------------------
(* Properties of the write step *)

\* the backend adapter was invoked and returned a string
BackendReturned == failure # "none" /\ ~GenerationRaised

Destination == IF Configured(output_file) THEN output_file ELSE DefaultPath

\* the one file a successful write step leaves
Artifact ==
    << [path |-> Destination, data |-> clean_ai_output(generated_readme),
        complete |-> TRUE] >>

\* what the Ollama adapter swallows
OllamaSwallowed ==
    calls = <<"ollama">> /\ failure \in NetworkFailures \cup { "http_status", "absent" }

====
